---- MODULE Spec2Model ----
(***************************************************************************)
(* veNum: the shape/stride algebra (src/src/core/shape.rs) and the tensor  *)
(* layer on top of it (src/src/core/tensor.rs).                            *)
(*                                                                         *)
(* A usize value v is held as the integer of least magnitude congruent to  *)
(* v modulo 2^64: 0 - 2 is held as -2.  Sums, differences and products of  *)
(* such representatives are the representatives of the wrapped results, so *)
(* a release build's wrapping arithmetic is ordinary integer arithmetic    *)
(* here, and a negative representative is a value that has wrapped (it is  *)
(* larger than any buffer).  A debug build panics where a release build    *)
(* wraps.                                                                  *)
(***************************************************************************)
EXTENDS Integers, Sequences, FiniteSets, TLC

\* ------------------------------------------------------------------ bounds
MaxRank == 3
MaxSize == 2
MaxOps == 2

Builds == {"debug", "release"}

\* ----------------------------------------------------------------- helpers
RECURSIVE Product(_)
Product(s) == IF Len(s) = 0 THEN 1 ELSE Head(s) * Product(Tail(s))

RECURSIVE SumSeq(_)
SumSeq(s) == IF Len(s) = 0 THEN 0 ELSE Head(s) + SumSeq(Tail(s))

Contains(s, x) == \E i \in 1..Len(s) : s[i] = x

Min2(x, y) == IF x < y THEN x ELSE y
Max2(x, y) == IF x < y THEN y ELSE x

SeqsUpTo(S, n) == UNION {[1..k -> S] : k \in 0..n}

\* The two ways a call fails: an Err(..) value returned in the Res, and a panic!
\* (or a failed expect, index or overflow check), which unwinds out of the caller.
Err(kind) == [ok |-> FALSE, err |-> kind, panic |-> FALSE]

Panic(kind) == [ok |-> FALSE, err |-> kind, panic |-> TRUE]

\* The row-major index generator: the k-th index list of the Cartesian product
\* of 0..sizes[d]-1, the first dimension varying slowest.
Unravel(k, sizes) ==
    [d \in 1..Len(sizes) |->
        (k \div Product(SubSeq(sizes, d + 1, Len(sizes)))) % sizes[d]]

Indexer(sizes) == [k \in 1..Product(sizes) |-> Unravel(k - 1, sizes)]

\* ------------------------------------------------------------------ Stride
StrideNew(stride_val, positive) == [pos |-> positive, val |-> stride_val]

StrideOffset(stride, index, size) ==
    IF stride.pos THEN index * stride.val
    ELSE (size - 1 - index) * stride.val

StrideMul(stride, rhs) == [pos |-> stride.pos, val |-> stride.val * rhs]

\* Mutant of StrideEq: the direction is ignored.
StrideEqMagnitude(lhs, rhs) == lhs.val = rhs.val

StrideEq(lhs, rhs) ==
    \/ lhs.pos = rhs.pos /\ lhs.val = rhs.val
    \/ lhs.val = 0 /\ rhs.val = 0

\* ------------------------------------------------------------------- Shape
ShapeNew(sizes, offset) ==
    [sizes |-> sizes,
     strides |-> [i \in 1..Len(sizes) |->
                    StrideNew(Product(SubSeq(sizes, i + 1, Len(sizes))), TRUE)],
     offset |-> offset]

numdims(shape) == Len(shape.sizes)

numel(shape) == Product(shape.sizes)

matches_size(shape, length) == length = numdims(shape)

valid_reshape(shape, sizes) == numel(shape) = Product(sizes)

dimensions_occur_only_once(dimensions) ==
    \A i, j \in 1..Len(dimensions) : dimensions[i] = dimensions[j] => i = j

valid_indices(shape, indices) ==
    \A d \in 1..Min2(Len(shape.sizes), Len(indices)) : indices[d] < shape.sizes[d]

\* The first range, in order, that valid_ranges rejects decides the failure.
RangeFault(shape, indices, d) ==
    IF d > Len(shape.sizes) THEN "DimensionCountMismatch"
    ELSE IF indices[d][1] > indices[d][2] /\ indices[d][2] > 0 THEN "RangeOutOfBounds"
    ELSE IF indices[d][1] > shape.sizes[d] \/ indices[d][2] > shape.sizes[d]
         THEN "RangeOutOfBounds"
    ELSE "none"

valid_ranges(shape, indices) ==
    LET bad == {d \in 1..Len(indices) : RangeFault(shape, indices, d) # "none"}
    IN  IF bad = {} THEN "none"
        ELSE RangeFault(shape, indices, CHOOSE d \in bad : \A e \in bad : d <= e)

\* Mutant of is_contiguous: the loop stops one pair early.
is_contiguous_short(shape) ==
    \A i \in 1..(numdims(shape) - 2) :
        StrideEq(shape.strides[i], StrideMul(shape.strides[i + 1], shape.sizes[i + 1]))

is_contiguous(shape) ==
    \A i \in 1..(numdims(shape) - 1) :
        StrideEq(shape.strides[i], StrideMul(shape.strides[i + 1], shape.sizes[i + 1]))

ShapeView(shape, sizes) ==
    IF ~valid_reshape(shape, sizes) THEN Panic("ReshapeMismatch")
    ELSE IF Len(shape.strides) = 0 THEN Panic("EmptyTensor")
    ELSE LET positive == shape.strides[1].pos
         IN  [ok |-> TRUE,
              shape |-> [sizes |-> sizes,
                         strides |-> [i \in 1..Len(sizes) |->
                             StrideNew(Product(SubSeq(sizes, i + 1, Len(sizes))), positive)],
                         offset |-> shape.offset]]

ShapeSqueeze(shape) ==
    IF Product(shape.sizes) = 1 THEN [ok |-> TRUE, shape |-> ShapeNew(<<1>>, shape.offset)]
    ELSE LET keep == SelectSeq([i \in 1..Len(shape.sizes) |-> i],
                               LAMBDA i : shape.sizes[i] # 1)
         IN  [ok |-> TRUE,
              shape |-> [sizes |-> [k \in 1..Len(keep) |-> shape.sizes[keep[k]]],
                         strides |-> [k \in 1..Len(keep) |-> shape.strides[keep[k]]],
                         offset |-> shape.offset]]

\* Mutant of ShapePermute: the strides are rebuilt row-major for the permuted
\* sizes instead of being permuted with them.
ShapePermuteRebuilt(shape, permutation) ==
    IF ~matches_size(shape, Len(permutation)) THEN Panic("DimensionCountMismatch")
    ELSE IF ~dimensions_occur_only_once(permutation) THEN Panic("DuplicateDimension")
    ELSE IF \E k \in 1..Len(permutation) : permutation[k] >= numdims(shape)
         THEN Panic("IndexOutOfBounds")
    ELSE [ok |-> TRUE,
          shape |-> ShapeNew([k \in 1..Len(permutation) |-> shape.sizes[permutation[k] + 1]],
                             shape.offset)]

ShapePermute(shape, permutation) ==
    IF ~matches_size(shape, Len(permutation)) THEN Panic("DimensionCountMismatch")
    ELSE IF ~dimensions_occur_only_once(permutation) THEN Panic("DuplicateDimension")
    ELSE IF \E k \in 1..Len(permutation) : permutation[k] >= numdims(shape)
         THEN Panic("IndexOutOfBounds")
    ELSE [ok |-> TRUE,
          shape |-> [sizes |-> [k \in 1..Len(permutation) |-> shape.sizes[permutation[k] + 1]],
                     strides |-> [k \in 1..Len(permutation) |-> shape.strides[permutation[k] + 1]],
                     offset |-> shape.offset]]

ShapeFlip(shape, flips) ==
    IF ~dimensions_occur_only_once(flips) THEN Panic("DuplicateDimension")
    ELSE [ok |-> TRUE,
          shape |-> [sizes |-> shape.sizes,
                     strides |-> [i \in 1..Len(shape.strides) |->
                         IF Contains(flips, i - 1)
                         THEN [pos |-> ~shape.strides[i].pos, val |-> shape.strides[i].val]
                         ELSE shape.strides[i]],
                     offset |-> shape.offset]]

ShapeExpand(shape, expansions) ==
    IF shape.sizes = expansions THEN [ok |-> TRUE, shape |-> shape]
    ELSE IF ~matches_size(shape, Len(expansions)) THEN Panic("DimensionCountMismatch")
    ELSE IF \E i \in 1..Len(expansions) :
                expansions[i] # shape.sizes[i] /\ shape.sizes[i] # 1
         THEN Panic("IncompatibleExpansion")
    ELSE [ok |-> TRUE,
          shape |-> [sizes |-> expansions,
                     strides |-> [i \in 1..Len(expansions) |->
                         IF expansions[i] = shape.sizes[i] THEN shape.strides[i]
                         ELSE StrideNew(0, TRUE)],
                     offset |-> shape.offset]]

\* Mutant of BroadcastAt: a left size of 1 is kept instead of the right size.
BroadcastAtKeepLeft(lhs_shape, rhs_shape, j) ==
    LET l == Len(lhs_shape) - j
        r == Len(rhs_shape) - j
    IN  IF l >= 1 /\ r >= 1
        THEN IF lhs_shape[l] = rhs_shape[r] \/ lhs_shape[l] = 1 \/ rhs_shape[r] = 1
             THEN lhs_shape[l]
             ELSE -1
        ELSE IF l >= 1 THEN lhs_shape[l]
        ELSE rhs_shape[r]

\* Broadcast of two size lists, aligned at their last entries.
BroadcastAt(lhs_shape, rhs_shape, j) ==
    LET l == Len(lhs_shape) - j
        r == Len(rhs_shape) - j
    IN  IF l >= 1 /\ r >= 1
        THEN IF lhs_shape[l] = rhs_shape[r] THEN lhs_shape[l]
             ELSE IF lhs_shape[l] = 1 THEN rhs_shape[r]
             ELSE IF rhs_shape[r] = 1 THEN lhs_shape[l]
             ELSE -1
        ELSE IF l >= 1 THEN lhs_shape[l]
        ELSE rhs_shape[r]

ShapeBroadcast(lhs_shape, rhs_shape) ==
    LET max_len == Max2(Len(lhs_shape), Len(rhs_shape))
    IN  IF \E j \in 0..(max_len - 1) : BroadcastAt(lhs_shape, rhs_shape, j) = -1
        THEN Panic("IncompatibleBroadcast")
        ELSE [ok |-> TRUE,
              sizes |-> [i \in 1..max_len |-> BroadcastAt(lhs_shape, rhs_shape, max_len - i)]]

ShapeElement(shape, indices) ==
    IF ~matches_size(shape, Len(indices)) THEN Panic("DimensionCountMismatch")
    ELSE IF ~valid_indices(shape, indices) THEN Panic("IndexOutOfRange")
    ELSE [ok |-> TRUE,
          offset |-> SumSeq([d \in 1..Len(indices) |->
                         StrideOffset(shape.strides[d], indices[d], shape.sizes[d])])
                     + shape.offset]

\* The base offset slice and single_slice start from.
SliceBase(shape) ==
    IF shape.strides[1].pos THEN shape.offset ELSE numel(shape) - 1 - shape.offset

SliceBaseUnderflows(shape) ==
    ~shape.strides[1].pos /\ (numel(shape) - 1 < 0 \/ numel(shape) - 1 - shape.offset < 0)

RangeEnd(shape, indices, d) ==
    IF d > Len(indices) \/ indices[d][2] = 0 THEN shape.sizes[d] ELSE indices[d][2]

RangeStart(indices, d) == IF d > Len(indices) THEN 0 ELSE indices[d][1]

\* The offset after the closure of slice has run on dimensions 1..k.
RECURSIVE SliceOffset(_, _, _)
SliceOffset(shape, indices, k) ==
    IF k = 0 THEN SliceBase(shape)
    ELSE IF shape.strides[k].pos
         THEN SliceOffset(shape, indices, k - 1) + RangeStart(indices, k) * shape.strides[k].val
         ELSE SliceOffset(shape, indices, k - 1)
                  - (RangeEnd(shape, indices, k) - 1) * shape.strides[k].val

SliceUnderflows(shape, indices) ==
    \/ SliceBaseUnderflows(shape)
    \/ \E k \in 1..numdims(shape) :
          /\ ~shape.strides[k].pos
          /\ \/ RangeEnd(shape, indices, k) - 1 < 0
             \/ SliceOffset(shape, indices, k) < 0

ShapeSlice(shape, indices, bld) ==
    IF valid_ranges(shape, indices) # "none" THEN Panic(valid_ranges(shape, indices))
    ELSE IF Len(shape.strides) = 0 THEN Panic("EmptyTensor")
    ELSE IF bld = "debug" /\ SliceUnderflows(shape, indices) THEN Panic("ArithmeticOverflow")
    ELSE [ok |-> TRUE,
          shape |-> [sizes |-> [d \in 1..numdims(shape) |->
                                   RangeEnd(shape, indices, d) - RangeStart(indices, d)],
                     strides |-> shape.strides,
                     offset |-> SliceOffset(shape, indices, numdims(shape))]]

\* single_slice: an index is a number, or None for the full extent.
None == -1

RECURSIVE SingleSliceOffset(_, _, _)
SingleSliceOffset(shape, indices, k) ==
    IF k = 0 THEN SliceBase(shape)
    ELSE IF indices[k] = None THEN SingleSliceOffset(shape, indices, k - 1)
    ELSE IF shape.strides[k].pos
         THEN SingleSliceOffset(shape, indices, k - 1) + indices[k] * shape.strides[k].val
         ELSE SingleSliceOffset(shape, indices, k - 1) - indices[k] * shape.strides[k].val

SingleSliceUnderflows(shape, indices) ==
    \/ SliceBaseUnderflows(shape)
    \/ \E k \in 1..Min2(numdims(shape), Len(indices)) :
          indices[k] # None /\ ~shape.strides[k].pos
          /\ SingleSliceOffset(shape, indices, k) < 0

ShapeSingleSlice(shape, indices, bld) ==
    IF Len(shape.strides) = 0 THEN Panic("EmptyTensor")
    ELSE IF bld = "debug" /\ SingleSliceUnderflows(shape, indices) THEN Panic("ArithmeticOverflow")
    ELSE LET n == Min2(numdims(shape), Len(indices))
         IN  [ok |-> TRUE,
              shape |-> [sizes |-> [d \in 1..n |->
                                       IF indices[d] = None THEN shape.sizes[d] ELSE 1],
                         strides |-> shape.strides,
                         offset |-> SingleSliceOffset(shape, indices, n)]]

\* transpose and unsqueeze of Shape, which tensor.rs calls.
ShapeTranspose(shape, dim_1, dim_2) ==
    IF dim_1 >= numdims(shape) \/ dim_2 >= numdims(shape) THEN Err("IndexOutOfRange")
    ELSE IF dim_1 = dim_2 THEN Err("DuplicateDimension")
    ELSE ShapePermute(shape, [k \in 1..numdims(shape) |->
                                 IF k - 1 = dim_1 THEN dim_2
                                 ELSE IF k - 1 = dim_2 THEN dim_1 ELSE k - 1])

ShapeUnsqueeze(shape, expansion) ==
    LET pad == Max2(expansion - numdims(shape), 0)
    IN  [ok |-> TRUE,
         shape |-> [sizes |-> [i \in 1..pad |-> 1] \o shape.sizes,
                    strides |-> [i \in 1..pad |->
                                   IF numdims(shape) = 0 THEN StrideNew(1, TRUE)
                                   ELSE StrideMul(shape.strides[1], shape.sizes[1])]
                                \o shape.strides,
                    offset |-> shape.offset]]

\* impl PartialEq for Shape: the sizes and the strides, not the offset.
ShapeEq(lhs, rhs) ==
    /\ lhs.sizes = rhs.sizes
    /\ Len(lhs.strides) = Len(rhs.strides)
    /\ \A i \in 1..Len(lhs.strides) : StrideEq(lhs.strides[i], rhs.strides[i])

\* ------------------------------------------------------------------ Tensor
\* A tensor is [data |-> the identity of its backing buffer, shape |-> Shape];
\* bs is the heap of buffers, bs[id] the elements of buffer id.
Tensor(id, shape) == [data |-> id, shape |-> shape]

\* Arc::new(elements): a buffer with a new identity.
ArcNew(bs, elements) == Append(bs, elements)

Fresh(bs, elements, shape) ==
    [ok |-> TRUE, t |-> Tensor(Len(bs) + 1, shape), bufs |-> ArcNew(bs, elements)]

\* Arc::clone(&self.data) with a recomputed shape.
Shared(t, bs, r) ==
    IF r.ok THEN [ok |-> TRUE, t |-> Tensor(t.data, r.shape), bufs |-> bs] ELSE r

InBuffer(t, bs, off) == 0 <= off /\ off < Len(bs[t.data])

TensorIndex(t, bs, indices) ==
    LET r == ShapeElement(t.shape, indices)
    IN  IF ~r.ok THEN r
        ELSE IF ~InBuffer(t, bs, r.offset) THEN Panic("BufferIndexOutOfBounds")
        ELSE [ok |-> TRUE, value |-> bs[t.data][r.offset + 1]]

data_contiguous(t, bs) ==
    LET start == t.shape.offset
        end == start + numel(t.shape)
    IN  IF 0 <= start /\ end <= Len(bs[t.data])
        THEN [ok |-> TRUE, data |-> SubSeq(bs[t.data], start + 1, end)]
        ELSE Panic("BufferIndexOutOfBounds")

data_non_contiguous(t, bs) ==
    LET idx == Indexer(t.shape.sizes)
    IN  IF \E k \in 1..Len(idx) : ~TensorIndex(t, bs, idx[k]).ok
        THEN Panic("BufferIndexOutOfBounds")
        ELSE [ok |-> TRUE, data |-> [k \in 1..Len(idx) |-> TensorIndex(t, bs, idx[k]).value]]

TensorData(t, bs) ==
    IF is_contiguous(t.shape) THEN data_contiguous(t, bs) ELSE data_non_contiguous(t, bs)

TensorNew(bs, data, sizes) ==
    IF Len(data) # Product(sizes) THEN Err("DataLengthMismatch")
    ELSE Fresh(bs, data, ShapeNew(sizes, 0))

to_contiguous(t, bs) ==
    LET d == data_non_contiguous(t, bs)
    IN  IF ~d.ok THEN d ELSE Fresh(bs, d.data, ShapeNew(t.shape.sizes, 0))

TensorView(t, bs, sizes) == Shared(t, bs, ShapeView(t.shape, sizes))

\* Mutant of TensorReshape: a contiguous receiver is reshaped without a copy.
TensorReshapeNoCopy(t, bs, sizes) ==
    LET d == data_non_contiguous(t, bs)
    IN  IF is_contiguous(t.shape) THEN TensorView(t, bs, sizes)
        ELSE IF ~d.ok THEN d ELSE Fresh(bs, d.data, ShapeNew(sizes, 0))

TensorReshape(t, bs, sizes) ==
    LET d == data_non_contiguous(t, bs)
    IN  IF ~d.ok THEN d ELSE Fresh(bs, d.data, ShapeNew(sizes, 0))

\* self.view(sizes).or_else(|_| self.reshape(sizes)): the fallback runs on an Err
\* of view; a panic inside view unwinds past it.
view_else_reshape(t, bs, sizes) ==
    LET v == TensorView(t, bs, sizes)
    IN  IF v.ok \/ v.panic THEN v ELSE TensorReshape(t, bs, sizes)

TensorSqueeze(t, bs) == Shared(t, bs, ShapeSqueeze(t.shape))

TensorUnsqueeze(t, bs, expansion) == Shared(t, bs, ShapeUnsqueeze(t.shape, expansion))

TensorPermute(t, bs, permutation) == Shared(t, bs, ShapePermute(t.shape, permutation))

TensorTranspose(t, bs, dim_1, dim_2) == Shared(t, bs, ShapeTranspose(t.shape, dim_1, dim_2))

TensorExpand(t, bs, expansions) == Shared(t, bs, ShapeExpand(t.shape, expansions))

TensorFlip(t, bs, flips) == Shared(t, bs, ShapeFlip(t.shape, flips))

TensorSlice(t, bs, ranges, bld) == Shared(t, bs, ShapeSlice(t.shape, ranges, bld))

TensorSlicer(t, bs, indices, bld) == Shared(t, bs, ShapeSingleSlice(t.shape, indices, bld))

\* The element functions the callers of the maps pass in.
MapF(x) == x + 10

ZipF(x, y) == x + y

ReduceF(elements) == SumSeq(elements)

\* data[offs[1]] = f(data[offs[1]]); ...; data[offs[k]] = f(data[offs[k]]), in order;
\* rhs[j] is the second argument of the j-th call, None when f takes one.
RECURSIVE WriteAll(_, _, _, _)
WriteAll(data, offs, rhs, k) ==
    IF k = 0 THEN data
    ELSE LET prev == WriteAll(data, offs, rhs, k - 1)
         IN  [prev EXCEPT ![offs[k] + 1] =
                 IF rhs[k] = None THEN MapF(@) ELSE ZipF(@, rhs[k])]

\* The copy-on-write loop: every offset is computed through slice_shape and
\* indexes the private copy.
WriteLoop(t, bs, copy, slice_shape, rhs) ==
    LET idx == Indexer(slice_shape.sizes)
        n == Min2(Len(idx), Len(rhs))
        offs == [k \in 1..n |-> ShapeElement(slice_shape, idx[k]).offset]
    IN  IF \E k \in 1..n : offs[k] < 0 \/ offs[k] >= Len(copy)
        THEN Panic("BufferIndexOutOfBounds")
        ELSE Fresh(bs, WriteAll(copy, offs, rhs, n), t.shape)

\* Mutant of index_map: the element is written into the receiver's buffer.
index_map_in_place(t, bs, index) ==
    LET e == ShapeElement(t.shape, index)
    IN  IF ~e.ok THEN e
        ELSE IF ~InBuffer(t, bs, e.offset) THEN Panic("BufferIndexOutOfBounds")
        ELSE [ok |-> TRUE, t |-> t,
              bufs |-> [bs EXCEPT ![t.data] = [@ EXCEPT ![e.offset + 1] = MapF(@)]]]

index_map(t, bs, index) ==
    LET d == TensorData(t, bs)
        e == ShapeElement(t.shape, index)
    IN  IF ~d.ok THEN d
        ELSE IF ~e.ok THEN e
        ELSE IF e.offset < 0 \/ e.offset >= Len(d.data) THEN Panic("BufferIndexOutOfBounds")
        ELSE Fresh(bs, [d.data EXCEPT ![e.offset + 1] = MapF(@)], t.shape)

slice_map(t, bs, ranges, bld) ==
    LET s == ShapeSlice(t.shape, ranges, bld)
        d == TensorData(t, bs)
    IN  IF ~s.ok THEN s
        ELSE IF ~d.ok THEN d
        ELSE WriteLoop(t, bs, d.data, s.shape, [k \in 1..numel(s.shape) |-> None])

valid_data_length(shape, rhs) == Len(rhs) = numel(shape)

slice_zip(t, bs, rhs, ranges, bld) ==
    LET s == ShapeSlice(t.shape, ranges, bld)
        d == TensorData(t, bs)
    IN  IF ~s.ok THEN s
        ELSE IF ~valid_data_length(s.shape, rhs) THEN Err("DataLengthMismatch")
        ELSE IF ~d.ok THEN d
        ELSE WriteLoop(t, bs, d.data, s.shape, rhs)

\* The element function the callers of zip pass in.
PairF(x, y) == 100 * x + y

\* One element of a zip on the index-generator path: lhs.index(&index)? then
\* rhs.index(&index)?, then f of the two.
ZipCell(lhs, rhs, bs, index) ==
    LET l == TensorIndex(lhs, bs, index)
        r == TensorIndex(rhs, bs, index)
    IN  IF ~l.ok THEN l
        ELSE IF ~r.ok THEN r
        ELSE [ok |-> TRUE, value |-> PairF(l.value, r.value)]

\* Indexer::new(sizes).map(cell).collect::<Res<Vec>>(): the elements, or the
\* first failure.
ZipCells(lhs, rhs, bs, sizes) ==
    LET idx == Indexer(sizes)
        bad == {k \in 1..Len(idx) : ~ZipCell(lhs, rhs, bs, idx[k]).ok}
    IN  IF bad # {}
        THEN ZipCell(lhs, rhs, bs, idx[CHOOSE k \in bad : \A j \in bad : k <= j])
        ELSE [ok |-> TRUE,
              data |-> [k \in 1..Len(idx) |-> ZipCell(lhs, rhs, bs, idx[k]).value]]

equal_zip(lhs, rhs, bs) ==
    IF is_contiguous(lhs.shape) /\ is_contiguous(rhs.shape)
    THEN LET l == data_contiguous(lhs, bs)
             r == data_contiguous(rhs, bs)
         IN  IF ~l.ok THEN l
             ELSE IF ~r.ok THEN r
             ELSE Fresh(bs,
                        [k \in 1..Min2(Len(l.data), Len(r.data)) |->
                            PairF(l.data[k], r.data[k])],
                        [sizes |-> lhs.shape.sizes,
                         strides |-> lhs.shape.strides,
                         offset |-> 0])
    ELSE LET d == ZipCells(lhs, rhs, bs, lhs.shape.sizes)
         IN  IF ~d.ok THEN d ELSE Fresh(bs, d.data, ShapeNew(lhs.shape.sizes, 0))

\* self.unsqueeze(expansion)?.expand(&sizes)?
Broadcasted(t, bs, sizes) ==
    LET u == TensorUnsqueeze(t, bs, Len(sizes))
    IN  IF ~u.ok THEN u ELSE TensorExpand(u.t, u.bufs, sizes)

broadcast_zip(lhs, rhs, bs) ==
    LET b == ShapeBroadcast(lhs.shape.sizes, rhs.shape.sizes)
    IN  IF ~b.ok THEN b
        ELSE LET lhs_broadcasted == Broadcasted(lhs, bs, b.sizes)
                 rhs_broadcasted == Broadcasted(rhs, bs, b.sizes)
             IN  IF ~lhs_broadcasted.ok THEN lhs_broadcasted
                 ELSE IF ~rhs_broadcasted.ok THEN rhs_broadcasted
                 ELSE LET d == ZipCells(lhs_broadcasted.t, rhs_broadcasted.t, bs, b.sizes)
                      IN  IF ~d.ok THEN d ELSE Fresh(bs, d.data, ShapeNew(b.sizes, 0))

zip(lhs, rhs, bs) ==
    IF ShapeEq(lhs.shape, rhs.shape) THEN equal_zip(lhs, rhs, bs)
    ELSE broadcast_zip(lhs, rhs, bs)

\* impl PartialEq for Tensor: data() of both, then the shapes. A data() that
\* panics is compared as the fault it raises.
TensorEq(lhs, rhs, bs) ==
    TensorData(lhs, bs) = TensorData(rhs, bs) /\ ShapeEq(lhs.shape, rhs.shape)

\* reduce: the dimension check and the Slicer iterator that reduce calls.
valid_dimensions(shape, dimensions) ==
    \A k \in 1..Len(dimensions) : dimensions[k] < numdims(shape)

Slicer(sizes, dimensions, keepdims) ==
    LET kept == SelectSeq([i \in 1..Len(sizes) |-> i],
                          LAMBDA i : ~Contains(dimensions, i - 1))
        pos(i) == CHOOSE k \in 1..Len(kept) : kept[k] = i
        idx == Indexer([k \in 1..Len(kept) |-> sizes[kept[k]]])
    IN  [j \in 1..Len(idx) |->
            [i \in 1..Len(sizes) |->
                IF Contains(dimensions, i - 1) THEN None ELSE idx[j][pos(i)]]]

ReduceSizes(sizes, dimensions, keepdims) ==
    [i \in 1..Len(sizes) |->
        IF keepdims /\ Contains(dimensions, i - 1) THEN 1
        ELSE IF keepdims THEN sizes[i]
        ELSE IF Contains(dimensions, i - 1) THEN sizes[i]
        ELSE 1]

ReduceCell(t, bs, index, bld) ==
    LET sub == TensorSlicer(t, bs, index, bld)
    IN  IF ~sub.ok THEN sub ELSE data_non_contiguous(sub.t, bs)

reduce(t, bs, dimensions, keepdims, bld) ==
    IF ~valid_dimensions(t.shape, dimensions) THEN Err("IndexOutOfRange")
    ELSE LET sl == Slicer(t.shape.sizes, dimensions, keepdims)
             bad == {j \in 1..Len(sl) : ~ReduceCell(t, bs, sl[j], bld).ok}
         IN  IF bad # {}
             THEN ReduceCell(t, bs, sl[CHOOSE j \in bad : \A k \in bad : j <= k], bld)
             ELSE Fresh(bs,
                        [j \in 1..Len(sl) |-> ReduceF(ReduceCell(t, bs, sl[j], bld).data)],
                        ShapeNew(ReduceSizes(t.shape.sizes, dimensions, keepdims), 0))

\* ------------------------------------------------------------ state machine
VARIABLES
    bufs,    \* the heap: bufs[id] is the element sequence of backing buffer id
    a,       \* the tensor built by Tensor::new
    recv,    \* the receiver of the last call
    cur,     \* the tensor the next call is made on: the last tensor produced
    last,    \* the last call: [op, ok, err, panic, args, out]
    hist,    \* the operations that produced cur from a
    nops,    \* the number of calls made
    build    \* debug (overflow checks panic) or release (arithmetic wraps)

vars == <<bufs, a, recv, cur, last, hist, nops, build>>

\* The inputs the calls are made with.
Dims == 0..(MaxRank - 1)

SizeLists == {s \in SeqsUpTo(1..MaxSize, MaxRank) : Len(s) >= 1}

PermLists ==
    {p \in SeqsUpTo(Dims, MaxRank) :
        Len(p) >= 1 /\ (dimensions_occur_only_once(p) \/ Len(p) = 2)}

Ascending(p) == \A i, j \in 1..Len(p) : i < j => p[i] < p[j]

DimSets == {p \in SeqsUpTo(Dims, MaxRank) : Ascending(p)}

FlipLists == DimSets \cup {<<0, 0>>}

RangePairs == (0..MaxSize) \X (0..MaxSize)

\* Lists of two ranges draw both from the ranges that cut a dimension of two.
InnerPairs == {<<0, 0>>, <<0, 1>>, <<1, 2>>, <<1, 0>>}

RangeLists == SeqsUpTo(RangePairs, 1) \cup [1..2 -> InnerPairs]

ShortRangeLists == SeqsUpTo(RangePairs, 1)

IndexLists == {i \in SeqsUpTo(0..MaxSize, MaxRank) : Len(i) >= 1}

\* Every in-range index list of a shape, and one that is out of range.
IndexSpace(shape) == {Unravel(k, shape.sizes) : k \in 0..(numel(shape) - 1)}

MapIndexLists(shape) == IndexSpace(shape) \cup {[d \in 1..numdims(shape) |-> MaxSize]}

\* What the Slicer hands to slicer: one entry per dimension, in range or None.
OptionLists(shape) ==
    {i \in [1..numdims(shape) -> {None} \cup (0..MaxSize)] :
        \A d \in 1..numdims(shape) : i[d] = None \/ i[d] < shape.sizes[d]}

Arange(n) == [k \in 1..n |-> k]

Tens(n) == [k \in 1..n |-> 10 * k]

Call(op, r, args, out) ==
    [op |-> op, ok |-> r.ok, err |-> IF r.ok THEN "none" ELSE r.err,
     panic |-> IF r.ok THEN FALSE ELSE r.panic,
     args |-> args, out |-> IF r.ok THEN out ELSE 0]

Init ==
    /\ build \in Builds
    /\ \E sizes \in SizeLists :
          LET r == TensorNew(<<>>, Arange(Product(sizes)), sizes)
          IN  /\ bufs = r.bufs
              /\ a = r.t
              /\ recv = r.t
              /\ cur = r.t
              /\ last = Call("new", r, <<sizes>>, 0)
    /\ hist = {}
    /\ nops = 0

\* The program makes its next call when the last one gave it a tensor: a failed
\* call ends the run (a panic aborts it, an Err is passed up by `?`), and a value
\* read by index or broadcast is its result.
Ready == nops < MaxOps /\ last.ok /\ last.op \notin {"index", "broadcast"}

\* A call on cur that returns Res<Tensor>: r is what it returned.
Returns(op, args, r) ==
    /\ nops' = nops + 1
    /\ recv' = cur
    /\ cur' = IF r.ok THEN r.t ELSE cur
    /\ bufs' = IF r.ok THEN r.bufs ELSE bufs
    /\ hist' = IF r.ok THEN hist \cup {op} ELSE hist
    /\ last' = Call(op, r, args, 0)
    /\ UNCHANGED <<a, build>>

\* A call on cur that returns a value, not a tensor.
Answers(op, args, r, out) ==
    /\ nops' = nops + 1
    /\ recv' = cur
    /\ last' = Call(op, r, args, out)
    /\ UNCHANGED <<bufs, a, cur, hist, build>>

View ==
    /\ Ready
    /\ \E sizes \in SizeLists : Returns("view", <<sizes>>, TensorView(cur, bufs, sizes))

Reshape ==
    /\ Ready
    /\ \E sizes \in SizeLists :
          Returns("reshape", <<sizes>>, TensorReshape(cur, bufs, sizes))

ViewElseReshape ==
    /\ Ready
    /\ \E sizes \in SizeLists :
          Returns("view_else_reshape", <<sizes>>, view_else_reshape(cur, bufs, sizes))

\* zip of the current tensor with itself or with the tensor new built.
Zip ==
    /\ Ready
    /\ \E rhs \in {a, cur} : Returns("zip", <<rhs>>, zip(cur, rhs, bufs))

ToContiguous == Ready /\ Returns("to_contiguous", <<>>, to_contiguous(cur, bufs))

Squeeze == Ready /\ Returns("squeeze", <<>>, TensorSqueeze(cur, bufs))

Unsqueeze ==
    /\ Ready
    /\ \E n \in 0..MaxRank : Returns("unsqueeze", <<n>>, TensorUnsqueeze(cur, bufs, n))

Permute ==
    /\ Ready
    /\ \E p \in PermLists : Returns("permute", <<p>>, TensorPermute(cur, bufs, p))

Transpose ==
    /\ Ready
    /\ \E d1, d2 \in Dims :
          Returns("transpose", <<d1, d2>>, TensorTranspose(cur, bufs, d1, d2))

Expand ==
    /\ Ready
    /\ \E e \in SizeLists : Returns("expand", <<e>>, TensorExpand(cur, bufs, e))

Flip ==
    /\ Ready
    /\ \E f \in FlipLists : Returns("flip", <<f>>, TensorFlip(cur, bufs, f))

Slice ==
    /\ Ready
    /\ \E r \in RangeLists : Returns("slice", <<r>>, TensorSlice(cur, bufs, r, build))

SingleSlice ==
    /\ Ready
    /\ \E i \in OptionLists(cur.shape) :
          Returns("single_slice", <<i>>, TensorSlicer(cur, bufs, i, build))

Index ==
    /\ Ready
    /\ \E i \in IndexLists :
          LET r == TensorIndex(cur, bufs, i)
          IN  Answers("index", <<i>>, r, r.value)

IndexMap ==
    /\ Ready
    /\ \E i \in MapIndexLists(cur.shape) : Returns("index_map", <<i>>, index_map(cur, bufs, i))

SliceMap ==
    /\ Ready
    /\ \E r \in ShortRangeLists :
          Returns("slice_map", <<r>>, slice_map(cur, bufs, r, build))

SliceZip ==
    /\ Ready
    /\ \E r \in ShortRangeLists, n \in 0..MaxSize :
          Returns("slice_zip", <<r, Tens(n)>>, slice_zip(cur, bufs, Tens(n), r, build))

Reduce ==
    /\ Ready
    /\ \E d \in DimSets, keepdims \in BOOLEAN :
          Returns("reduce", <<d, keepdims>>, reduce(cur, bufs, d, keepdims, build))

Broadcast ==
    /\ Ready
    /\ \E rhs \in SizeLists :
          LET r == ShapeBroadcast(cur.shape.sizes, rhs)
          IN  Answers("broadcast", <<rhs>>, r, r.sizes)

Next ==
    \/ View \/ Reshape \/ ToContiguous \/ Squeeze \/ Unsqueeze \/ Permute
    \/ Transpose \/ Expand \/ Flip \/ Slice \/ SingleSlice \/ Index
    \/ IndexMap \/ SliceMap \/ SliceZip \/ Reduce \/ Broadcast
    \/ ViewElseReshape \/ Zip

Spec == Init /\ [][Next]_vars

\* ------------------------------------------------------------------ claims
RankOf(t) == numdims(t.shape)

\* C1: for a tensor built by new and transformed by successful view, squeeze,
\* permute, flip, expand, slice and single_slice calls, the offset element()
\* computes for every in-range index list has not wrapped below zero and lies
\* in [0, length of the backing buffer).
C1Ops == {"view", "squeeze", "permute", "flip", "expand", "slice", "single_slice"}

C1_OffsetsInBuffer ==
    hist \subseteq C1Ops =>
        /\ cur.shape.offset >= 0
        /\ \A i \in IndexSpace(cur.shape) :
              InBuffer(cur, bufs, ShapeElement(cur.shape, i).offset)

\* C2: a zero-copy transform (view, slice, permute, flip, expand, squeeze,
\* transpose, unsqueeze) that succeeds returns a tensor on the receiver's
\* backing buffer; reshape and to_contiguous return a tensor on a buffer that
\* was created by the call and is not the receiver's.
ZeroCopyOps ==
    {"view", "slice", "permute", "flip", "expand", "squeeze", "transpose", "unsqueeze"}

CopyOps == {"reshape", "to_contiguous"}

C3_ReshapeSameMemory ==
    (/\ last.op = "reshape" /\ last.ok
     /\ recv = a
     /\ is_contiguous(recv.shape)
     /\ Product(last.args[1]) = numel(recv.shape))
        => cur.data = recv.data

\* C4: copy-on-write isolation: whatever index_map, slice_map and slice_zip calls
\* are made on tensors that share a's buffer and on their results, every element
\* of a's backing buffer stays what new put there, and each result is on a
\* buffer other than a's (and other than its receiver's).
CowOps == {"index_map", "slice_map", "slice_zip"}

C4_CopyOnWrite ==
    /\ bufs[a.data] = Arange(numel(a.shape))
    /\ (last.ok /\ last.op \in CowOps) =>
          /\ cur.data # a.data
          /\ cur.data # recv.data

C4_Witness ==
    /\ last.op \in CowOps /\ last.ok
    /\ "view" \in hist
    /\ recv.data = a.data
    /\ bufs[cur.data] # bufs[a.data]

\* C5: for every tensor for which is_contiguous() is true (flipped in all
\* dimensions and row-sliced views included) and every size list s whose product
\* is its element count, view(s).data() and reshape(s).data() are the same
\* element sequence.
ViewData(t, bs, sizes) ==
    LET v == TensorView(t, bs, sizes)
    IN  IF v.ok THEN TensorData(v.t, v.bufs) ELSE v

ReshapeData(t, bs, sizes) ==
    LET r == TensorReshape(t, bs, sizes)
    IN  IF r.ok THEN TensorData(r.t, r.bufs) ELSE r

C5_ViewEqualsReshape ==
    (hist \subseteq C1Ops /\ is_contiguous(cur.shape)) =>
        \A s \in SizeLists :
            (/\ Product(s) = numel(cur.shape)
             /\ ViewData(cur, bufs, s).ok
             /\ ReshapeData(cur, bufs, s).ok)
                => ViewData(cur, bufs, s).data = ReshapeData(cur, bufs, s).data

\* The dimensions of the receiver that the last flip call inverted.
Flipped == {d \in 0..(RankOf(recv) - 1) : Contains(last.args[1], d)}

AllDims(t) == 0..(RankOf(t) - 1)

Canonical(t) == t.shape = ShapeNew(t.shape.sizes, 0)

\* C6: for a tensor of two or more dimensions, every size at least 2, in the
\* canonical row-major layout of new/reshape: is_contiguous() is true; flipping
\* all dimensions gives a contiguous tensor; flipping a set of dimensions that
\* includes a non-last dimension and is not the set of all dimensions gives a
\* tensor for which is_contiguous() is false.
C6_FlipContiguity ==
    (/\ last.op = "flip" /\ last.ok
     /\ Canonical(recv)
     /\ RankOf(recv) >= 2
     /\ \A d \in 1..RankOf(recv) : recv.shape.sizes[d] >= 2)
        => /\ is_contiguous(recv.shape)
           /\ Flipped = AllDims(recv) => is_contiguous(cur.shape)
           /\ (Flipped # AllDims(recv) /\ \E d \in Flipped : d < RankOf(recv) - 1)
                 => ~is_contiguous(cur.shape)

C6_Witness ==
    /\ last.op = "flip" /\ last.ok
    /\ Canonical(recv)
    /\ recv.shape.sizes = <<2, 2, 2>>
    /\ Flipped = {0, 1}
    /\ ~is_contiguous(cur.shape)

\* C7 as claimed: flipping only the last dimension of a contiguous tensor that
\* has two or more dimensions yields a tensor for which is_contiguous() is true.
FlipsOnlyLast ==
    /\ last.op = "flip" /\ last.ok
    /\ is_contiguous(recv.shape)
    /\ RankOf(recv) >= 2
    /\ Flipped = {RankOf(recv) - 1}

C7_FlipLastStaysContiguous == FlipsOnlyLast => is_contiguous(cur.shape)

\* C7 amended: flipping only the last dimension of a contiguous tensor that has
\* two or more dimensions yields a tensor for which is_contiguous() is false,
\* unless the last dimension's stride times its size is zero (a broadcast or an
\* empty last dimension), the only case in which it stays contiguous.
LastExtent(t) ==
    t.shape.strides[RankOf(t)].val * t.shape.sizes[RankOf(t)]

C7_FlipLastBreaksContiguity ==
    FlipsOnlyLast => (is_contiguous(cur.shape) <=> LastExtent(recv) = 0)

C7_Witness ==
    /\ FlipsOnlyLast
    /\ recv = a
    /\ recv.shape.sizes = <<2, 2>>
    /\ ~is_contiguous(cur.shape)

\* C8: reduce(dimensions, f, keepdims) over in-range dimensions returns a tensor
\* whose sizes are the receiver's with each reduced dimension replaced by 1 when
\* keepdims is true and removed when it is false, the other dimensions
\* unchanged, and whose number of elements is the product of those sizes.
ReducedSizes(sizes, dimensions, keepdims) ==
    IF keepdims
    THEN [i \in 1..Len(sizes) |-> IF Contains(dimensions, i - 1) THEN 1 ELSE sizes[i]]
    ELSE LET kept == SelectSeq([i \in 1..Len(sizes) |-> i],
                               LAMBDA i : ~Contains(dimensions, i - 1))
         IN  [k \in 1..Len(kept) |-> sizes[kept[k]]]

C8_ReduceShape ==
    (last.op = "reduce" /\ last.ok) =>
        /\ cur.shape.sizes = ReducedSizes(recv.shape.sizes, last.args[1], last.args[2])
        /\ Len(bufs[cur.data]) = Product(cur.shape.sizes)

\* C9: broadcast right-aligns the two size lists; each aligned pair gives the
\* common size, or the other size when one of the two is 1; unpaired leading
\* sizes of the longer list pass through; it fails with IncompatibleBroadcast
\* exactly when some aligned pair has two different sizes neither of which is 1.
LeftPad(sizes, n) == [i \in 1..(n - Len(sizes)) |-> 1] \o sizes

Clash(l, r) == l # r /\ l # 1 /\ r # 1

C9_Broadcast ==
    last.op = "broadcast" =>
        LET lhs == recv.shape.sizes
            rhs == last.args[1]
            n == Max2(Len(lhs), Len(rhs))
            m == Min2(Len(lhs), Len(rhs))
            l == LeftPad(lhs, n)
            r == LeftPad(rhs, n)
            clash == \E j \in 0..(m - 1) : Clash(lhs[Len(lhs) - j], rhs[Len(rhs) - j])
        IN  /\ last.ok <=> ~clash
            /\ ~last.ok => last.err = "IncompatibleBroadcast"
            /\ last.ok => /\ Len(last.out) = n
                          /\ \A i \in 1..n :
                                last.out[i] = IF l[i] = 1 THEN r[i] ELSE l[i]
                          /\ \A i \in 1..(n - m) :
                                last.out[i] = IF Len(lhs) > Len(rhs) THEN lhs[i] ELSE rhs[i]

C9_Witness ==
    /\ last.op = "broadcast" /\ last.ok
    /\ recv.shape.sizes = <<2, 1>>
    /\ last.args[1] = <<1, 2>>
    /\ last.out = <<2, 2>>

\* C10: bounds failures are reported to the caller as failure results: index
\* with an index list whose length is not the rank fails with
\* DimensionCountMismatch, and with a coordinate >= its dimension's size fails
\* with IndexOutOfRange; slice with a range whose start exceeds its end (an end
\* of 0 stands for the dimension's size) or whose start or end exceeds the
\* dimension's size fails with RangeOutOfBounds; a failed call produces no
\* tensor and leaves the receiver as it was.
BadRange(shape, range, d) ==
    \/ range[1] > range[2] /\ range[2] # 0
    \/ range[1] > shape.sizes[d]
    \/ range[2] > shape.sizes[d]

\* The part of C10 that does not say how the failure reaches the caller.
BoundsFailures ==
    /\ last.op = "index" =>
          LET i == last.args[1]
          IN  /\ Len(i) # RankOf(recv) =>
                    ~last.ok /\ last.err = "DimensionCountMismatch"
              /\ (Len(i) = RankOf(recv) /\ \E d \in 1..Len(i) : i[d] >= recv.shape.sizes[d])
                    => ~last.ok /\ last.err = "IndexOutOfRange"
    /\ last.op = "slice" =>
          LET r == last.args[1]
          IN  (\E d \in 1..Min2(Len(r), RankOf(recv)) : BadRange(recv.shape, r[d], d))
                    => ~last.ok /\ last.err = "RangeOutOfBounds"
    /\ ~last.ok => cur = recv /\ last.out = 0

BoundsFailureKinds == {"DimensionCountMismatch", "IndexOutOfRange", "RangeOutOfBounds"}

C10_BoundsChecks ==
    /\ BoundsFailures
    /\ (last.op \in {"index", "slice"} /\ last.err \in BoundsFailureKinds) => ~last.panic

\* C11: permute round trip: for every tensor t a call has produced and every valid
\* permutation p of its dimensions, permute(permute(t, p), inverse(p)) succeeds
\* and has t's sizes, strides and offset, reads the same logical element
\* sequence, and compares equal to t; and when the program has permuted a by p
\* and then the result by inverse(p), the tensor it holds is a.
Inverse(p) == [i \in 1..Len(p) |-> (CHOOSE k \in 1..Len(p) : p[k] = i - 1) - 1]

ValidPerms(t) ==
    {p \in PermLists :
        /\ Len(p) = RankOf(t)
        /\ dimensions_occur_only_once(p)
        /\ \A k \in 1..Len(p) : p[k] < RankOf(t)}

PermuteBack(t, bs, p) ==
    LET q == TensorPermute(t, bs, p)
    IN  IF q.ok THEN TensorPermute(q.t, q.bufs, Inverse(p)) ELSE q

Produced == last.ok /\ last.op \notin {"index", "broadcast"}

C11_PermuteRoundTrip ==
    /\ Produced =>
          LET elements == data_non_contiguous(cur, bufs)
          IN  \A p \in ValidPerms(cur) :
                  LET b == PermuteBack(cur, bufs, p)
                  IN  /\ b.ok
                      /\ b.t.shape.sizes = cur.shape.sizes
                      /\ b.t.shape.strides = cur.shape.strides
                      /\ b.t.shape.offset = cur.shape.offset
                      /\ data_non_contiguous(b.t, b.bufs) = elements
                      /\ TensorEq(b.t, cur, bufs)
    /\ (last.op = "permute" /\ last.ok /\ nops = 2 /\ hist = {"permute"}) =>
          \A p \in ValidPerms(a) :
              (recv = TensorPermute(a, bufs, p).t /\ last.args[1] = Inverse(p))
                  => cur = a

C11_Witness ==
    /\ last.op = "permute" /\ last.ok /\ nops = 2 /\ hist = {"permute"}
    /\ a.shape.sizes = <<2, 2, 2>>
    /\ recv = TensorPermute(a, bufs, <<1, 2, 0>>).t
    /\ last.args[1] = <<2, 0, 1>>
    /\ last.args[1] = Inverse(<<1, 2, 0>>)
    /\ cur = a

\* C12: for a tensor built by new and transformed by successful flip, expand,
\* slice, permute, squeeze and view calls, whenever is_contiguous() is true the
\* buffer range [offset, offset + numel) lies inside the backing buffer and is,
\* element by element, the row-major sequence data_non_contiguous() reads
\* through element(); so data() returns that sequence on the fast path too.
C12Ops == {"flip", "expand", "slice", "permute", "squeeze", "view"}

C12_FastPathIsSlowPath ==
    (hist \subseteq C12Ops /\ is_contiguous(cur.shape)) =>
        /\ data_contiguous(cur, bufs).ok
        /\ data_non_contiguous(cur, bufs).ok
        /\ data_contiguous(cur, bufs).data = data_non_contiguous(cur, bufs).data
        /\ TensorData(cur, bufs) = data_non_contiguous(cur, bufs)

\* C13: on a shape reached from new by successful permute, flip and slice calls,
\* slice with valid ranges (start <= end <= size in each given dimension, an
\* end of 0 standing for the size, at most one range per dimension, missing
\* trailing ranges standing for the full extent) succeeds, the result's sizes
\* are end - start, and element(i) of the result is element of the receiver
\* at i shifted by the start of each dimension, for every in-range i.
C13Ops == {"permute", "flip", "slice"}

GoodRanges(shape, ranges) ==
    /\ Len(ranges) <= numdims(shape)
    /\ \A d \in 1..Len(ranges) :
          /\ ~BadRange(shape, ranges[d], d)
          /\ RangeStart(ranges, d) <= RangeEnd(shape, ranges, d)

Shifted(i, ranges) == [d \in 1..Len(i) |-> i[d] + RangeStart(ranges, d)]

C13_SliceCorrect ==
    (/\ last.op = "slice"
     /\ hist \subseteq C13Ops
     /\ GoodRanges(recv.shape, last.args[1]))
        => /\ last.ok
           /\ cur.shape.sizes =
                 [d \in 1..RankOf(recv) |->
                     RangeEnd(recv.shape, last.args[1], d) - RangeStart(last.args[1], d)]
           /\ \A i \in IndexSpace(cur.shape) :
                 ShapeElement(cur.shape, i).offset
                     = ShapeElement(recv.shape, Shifted(i, last.args[1])).offset

\* C14: for a tensor t (sliced, permuted and flipped views included) and an
\* in-range index idx, index_map(f, idx) succeeds, the result has t's sizes,
\* its element at idx is f of t's element at idx, and its element at every
\* other in-range index is t's element there.
MappedAt(t, bs, idx, j) ==
    IF j = idx THEN MapF(TensorIndex(t, bs, j).value) ELSE TensorIndex(t, bs, j).value

C14_IndexMapCorrect ==
    (last.op = "index_map" /\ last.args[1] \in IndexSpace(recv.shape)) =>
        /\ last.ok
        /\ cur.shape.sizes = recv.shape.sizes
        /\ \A j \in IndexSpace(recv.shape) :
              /\ TensorIndex(cur, bufs, j).ok
              /\ TensorIndex(cur, bufs, j).value = MappedAt(recv, bufs, last.args[1], j)

\* C15: for a tensor t reached from new by zero-copy transforms (permuted,
\* flipped and sliced views included) and sizes s whose product is t's element
\* count, view_else_reshape(s) succeeds and returns a tensor of sizes s whose
\* logical row-major element sequence is t's, the sequence reshape(s) holds; so
\* the result shares t's buffer only when the view reads that sequence.
C15Ops == ZeroCopyOps \cup {"view_else_reshape"}

C15_ViewElseReshapeCorrect ==
    (/\ last.op = "view_else_reshape"
     /\ hist \subseteq C15Ops
     /\ Product(last.args[1]) = numel(recv.shape))
        => /\ last.ok
           /\ cur.shape.sizes = last.args[1]
           /\ data_non_contiguous(cur, bufs).ok
           /\ data_non_contiguous(cur, bufs) = data_non_contiguous(recv, bufs)
           /\ TensorData(cur, bufs) = ReshapeData(recv, bufs, last.args[1])

\* C16: for two tensors (contiguous, flipped, permuted, sliced or expanded views)
\* whose sizes are broadcast-compatible, zip(f) succeeds, the result's sizes are
\* broadcast of the two size lists, and its element at every index i is f of
\* the two operands' elements at i, an operand being read at 0 in a dimension
\* where its size is 1 and not read in leading dimensions it does not have;
\* this holds whichever of the three paths zip takes.
C16Ops == {"flip", "permute", "slice", "expand", "zip"}

\* The index of operand t that index i of the broadcast result reads.
Aligned(t, i) ==
    [d \in 1..RankOf(t) |->
        IF t.shape.sizes[d] = 1 THEN 0 ELSE i[Len(i) - RankOf(t) + d]]

ZipPath(lhs, rhs) ==
    IF ~ShapeEq(lhs.shape, rhs.shape) THEN "broadcast"
    ELSE IF is_contiguous(lhs.shape) /\ is_contiguous(rhs.shape) THEN "contiguous"
    ELSE "indexer"

C16_ZipCorrect ==
    (/\ last.op = "zip"
     /\ hist \subseteq C16Ops
     /\ ShapeBroadcast(recv.shape.sizes, last.args[1].shape.sizes).ok)
        => /\ last.ok
           /\ cur.shape.sizes
                 = ShapeBroadcast(recv.shape.sizes, last.args[1].shape.sizes).sizes
           /\ \A i \in IndexSpace(cur.shape) :
                 /\ TensorIndex(cur, bufs, i).ok
                 /\ TensorIndex(cur, bufs, i).value
                       = PairF(TensorIndex(recv, bufs, Aligned(recv, i)).value,
                               TensorIndex(last.args[1], bufs, Aligned(last.args[1], i)).value)

====
